---- MODULE Spec2Model ----
\* Join-request approval workflow of the property-management application:
\* the hosted database tables (profiles, properties, units, join_requests,
\* tenancies) with their constraints and row-level policies, and the
\* client-side handlers that write to them.
EXTENDS Integers, Sequences, FiniteSets, TLC

\* ---------------------------------------------------------------- bounds
MaxRequests == 2
MaxTenancies == 2
MaxUnits == 2
MaxPayments == 2
MaxPayouts == 2
LastDay == 3

\* ------------------------------------------------------------ null values
NULL == "NULL"          \* SQL NULL in a text / uuid-of-user column
NoUnit == 0             \* SQL NULL in a unit_id column (unit ids are 1..)
NoRequest == 0          \* no join request

\* ------------------------------------------------------------ enum types
join_request_status == {"pending", "approved", "rejected"}
user_role == {"landlord", "tenant", "admin"}
UnitStatusOptions == {"vacant", "occupied", "maintenance"}

\* ------------------------------------------------------ users and sessions
Users == {"L1", "L2", "T1", "A1"}
InitProfiles ==
  { [user_id |-> "L1", email |-> "L1", role |-> "landlord"],
    [user_id |-> "L2", email |-> "L2", role |-> "landlord"],
    [user_id |-> "T1", email |-> "T1", role |-> "tenant"],
    [user_id |-> "A1", email |-> "A1", role |-> "admin"] }
\* properties rows: id -> landlord_id
PropertyIds == {"P1", "P2"}
landlord_id(p) == IF p = "P1" THEN "L1" ELSE "L2"
\* two browser sessions of the landlord dashboard, both signed in as L1
LandlordSessions == {"S1", "S2"}
\* the session in which the reject dialog, the unit form and the tenant form
\* are used; the other session only approves from its list
FormSessions == {"S1"}
\* results of the fetch queries, and of the writes of the handlers other
\* than approveRequest, apart from what the database itself rejects
FetchResults == {TRUE}
FormResults == {TRUE}
TenantSessions == {"T1"}
Sessions == LandlordSessions \cup TenantSessions
sessionUser(s) == IF s \in LandlordSessions THEN "L1" ELSE s
Emails == {"L1", "new"}
RentAmounts == {700}
Reasons == {"  ", " late "}

VARIABLES
  profiles,       \* set of profile rows
  units,          \* sequence of unit rows, id = index
  join_requests,  \* sequence of join_requests rows, id = index
  tenancies,      \* sequence of tenancies rows, id = index
  requests,       \* PendingRequests.requests of each landlord session
  pc,             \* position of each landlord session inside approveRequest
  cur,            \* the request argument of a running approveRequest
  issued,         \* writes issued so far by a running approveRequest
  lastWrite,      \* the write issued by the last step, if any
  toast,          \* the notification shown by the last step, if any
  dialog,         \* the reject dialog of each landlord session
  payments,       \* sequence of payments rows, id = index
  tenantView,     \* the lists held by the tenant's components
  is_searchable,  \* properties.is_searchable of each property
  visibility,     \* PropertyVisibility.properties of each landlord session
  searchView,     \* JoinPropertySearch.properties of each tenant session
  lastToggle,     \* the successful toggle that was the last step, if any
  payouts,        \* localStorage payouts_<user> of the landlord
  payoutView,     \* PayoutRequests.availableBalance and .payouts
  collectionData, \* RentCollection.collectionData
  authUsers,      \* ids of the rows of auth.users
  authProfile,    \* useAuth().profile of the browser that shows Dashboard
  view            \* what Dashboard renders

\* the state of the components outside the approval workflow and the
\* tenant's dashboard
searchState == <<is_searchable, visibility, searchView, lastToggle>>
payoutState == <<payouts, payoutView>>
authState == <<authUsers, authProfile, view>>
rest == <<searchState, payoutState, collectionData, authState>>

vars == <<profiles, units, join_requests, tenancies, requests, pc, cur,
          issued, lastWrite, toast, dialog, payments, tenantView, rest>>

\* the state outside the reject dialog, the four tables of the approval
\* workflow and the approval run of PendingRequests
extNoDialog == <<payments, tenantView, rest>>
ext == <<dialog, extNoDialog>>
\* the state of the landlord's PendingRequests component
pending == <<requests, pc, cur, issued, dialog>>

db == <<profiles, units, join_requests, tenancies>>

NoWrite == [session |-> NULL, handler |-> NULL, write |-> NULL, ok |-> FALSE]
Write(s, handler, name, ok) ==
  [session |-> s, handler |-> handler, write |-> name, ok |-> ok]

NoToast == [session |-> NULL, title |-> NULL]
Toast(s, title) == [session |-> s, title |-> title]

NoCur == [id |-> NoRequest, tenant_id |-> NULL, unit_id |-> NoUnit,
          rent_amount |-> 0]

\* showRejectDialog = false, selectedRequest = null, rejectionReason = ''
ClosedDialog == [open |-> FALSE, selectedRequest |-> NoCur,
                 rejectionReason |-> ""]

\* useState([]) of JoinPropertySearch.requests and of TenantDashboard's
\* tenancies, payments and requests
EmptyView == [searchRequests |-> {}, tenancies |-> {}, payments |-> {},
              requests |-> {}]

\* useState([]) of JoinPropertySearch.properties; searchTerm and hidden
\* record the last search that set the list: its term and the properties
\* that were not searchable when it ran
NoSearch == [properties |-> {}, searchTerm |-> NULL, hidden |-> {}]

\* no toggle yet, or another step since; before is the stored value the
\* toggle found
NoToggle == [session |-> NULL, id |-> NULL, before |-> FALSE]

\* useAuth().profile while no profile is loaded
NoProfile == [user_id |-> NULL, email |-> NULL, role |-> NULL]

\* ------------------------------------------------------------------ helpers
get_user_role(u) ==
  IF \E p \in profiles : p.user_id = u
  THEN (CHOOSE p \in profiles : p.user_id = u).role
  ELSE NULL

UnitIds == 1..Len(units)
RequestIds == 1..Len(join_requests)
TenancyIds == 1..Len(tenancies)

\* trim() of the reason typed in the reject dialog
Trim(r) == IF r \in {"", "  "} THEN "" ELSE "late"

\* nobody has requested or fetched anything yet
InitIdle ==
  /\ profiles = InitProfiles
  /\ join_requests = << >>
  /\ requests = [s \in LandlordSessions |-> {}]
  /\ pc = [s \in LandlordSessions |-> "idle"]
  /\ cur = [s \in LandlordSessions |-> NoCur]
  /\ issued = [s \in LandlordSessions |-> << >>]
  /\ lastWrite = NoWrite
  /\ toast = NoToast
  /\ dialog = [s \in LandlordSessions |-> ClosedDialog]
  /\ tenantView = [t \in TenantSessions |-> EmptyView]

\* the landlord L1 has one vacant unit in property P1, nobody rents or has
\* paid
InitWorkflow ==
  /\ units = << [property_id |-> "P1", rent_amount |-> 700,
                 status |-> "vacant"] >>
  /\ tenancies = << >>
  /\ payments = << >>
  /\ InitIdle

\* every property is searchable and no PropertyVisibility list is loaded
InitSearch ==
  /\ is_searchable = [p \in PropertyIds |-> TRUE]
  /\ visibility = [s \in LandlordSessions |-> {}]
  /\ searchView = [t \in TenantSessions |-> NoSearch]
  /\ lastToggle = NoToggle

\* no payout was ever requested
InitPayout ==
  /\ payouts = << >>
  /\ payoutView = [availableBalance |-> 0, payouts |-> << >>]

InitRent == collectionData = {}

\* the four users have signed up; the browser has no profile loaded yet
InitAuth ==
  /\ authUsers = Users
  /\ authProfile = NoProfile
  /\ view = "loading"

Init == InitWorkflow /\ InitSearch /\ InitPayout /\ InitRent /\ InitAuth

\* ------------------------------------------------------- row-level policies
\* auth.uid() is the parameter u; a policy FOR ALL with only USING applies
\* the same expression to the new row of an INSERT / UPDATE.
OwnedProperties(u) == {p \in PropertyIds : landlord_id(p) = u}
OwnedUnits(u) == {i \in UnitIds : units[i].property_id \in OwnedProperties(u)}

tenants_can_manage_own_requests(u, row) == row.tenant_id = u

landlords_can_manage_property_requests(u, row) ==
  \/ row.property_id \in OwnedProperties(u)
  \/ get_user_role(u) = "admin"

JoinRequestPolicy(u, row) ==
  \/ tenants_can_manage_own_requests(u, row)
  \/ landlords_can_manage_property_requests(u, row)

landlord_units_access(u, row) ==
  \/ row.property_id \in OwnedProperties(u)
  \/ get_user_role(u) = "admin"

tenant_tenancies_access(u, row) ==
  \/ row.tenant_id = u
  \/ get_user_role(u) = "admin"

\* variant: a NULL unit_id passes the landlord policy
landlord_tenancies_access_null(u, row) ==
  \/ row.unit_id = NoUnit
  \/ row.unit_id \in OwnedUnits(u)
  \/ get_user_role(u) = "admin"

\* unit_id IN (...) is not true for a NULL unit_id
landlord_tenancies_access(u, row) ==
  \/ row.unit_id \in OwnedUnits(u)
  \/ get_user_role(u) = "admin"

TenancyPolicy(u, row) ==
  \/ tenant_tenancies_access(u, row)
  \/ landlord_tenancies_access(u, row)

\* "Users can insert their own profile": WITH CHECK (auth.uid() = user_id)
ProfileInsertPolicy(u, row) == row.user_id = u
\* "Users can view their own profile": USING (auth.uid() = user_id)
ProfileSelectPolicy(u, row) == row.user_id = u

\* ------------------------------------------------------ table constraints
\* foreign keys accept NULL; profiles.user_id is unique
TenancyForeignKeys(row) ==
  /\ row.tenant_id = NULL \/ \E p \in profiles : p.user_id = row.tenant_id
  /\ row.unit_id = NoUnit \/ row.unit_id \in UnitIds

ProfileUnique(row) ==
  row.user_id = NULL \/ ~ \E p \in profiles : p.user_id = row.user_id

\* UNIQUE(tenant_id, property_id, unit_id): rows with a NULL unit_id never
\* conflict, because NULLs are distinct in a unique constraint
JoinRequestUnique(row) ==
  ~ \E i \in RequestIds :
       /\ join_requests[i].tenant_id = row.tenant_id
       /\ join_requests[i].property_id = row.property_id
       /\ join_requests[i].unit_id = row.unit_id
       /\ row.unit_id # NoUnit

\* variant: a column default outside the enum
DefaultStatus_open == "open"

\* status join_request_status DEFAULT 'pending'
DefaultStatus == "pending"

\* ---------------------------------------------------------------- writes
\* each returns whether the database accepts the statement for user u
CanInsertTenancy(u, row) == TenancyPolicy(u, row) /\ TenancyForeignKeys(row)

\* update ... eq('id', id): rows the policy hides are silently not updated
UpdateRequestRow(u, id, status, reason) ==
  [i \in RequestIds |->
     IF i = id /\ JoinRequestPolicy(u, join_requests[i])
     THEN [join_requests[i] EXCEPT !.status = status,
                                   !.rejection_reason = reason,
                                   !.updated_by = u]
     ELSE join_requests[i]]

UpdateUnitOccupied(u, id) ==
  [i \in UnitIds |->
     IF i = id /\ landlord_units_access(u, units[i])
     THEN [units[i] EXCEPT !.status = "occupied"]
     ELSE units[i]]

\* ------------------------------------------------- PendingRequests component
\* one fetched row: the join_requests columns used by approveRequest plus the
\* embedded units.rent_amount (0 stands for a missing units object)
RequestRow(i) ==
  [id |-> i,
   tenant_id |-> join_requests[i].tenant_id,
   unit_id |-> join_requests[i].unit_id,
   rent_amount |-> IF join_requests[i].unit_id \in UnitIds
                   THEN units[join_requests[i].unit_id].rent_amount
                   ELSE 0]

FetchedRequests(u) ==
  { RequestRow(i) : i \in
      { j \in RequestIds :
          /\ join_requests[j].property_id \in OwnedProperties(u)
          /\ join_requests[j].status = "pending" } }

\* fetchRequests(): replace the list, or keep it when the query fails; a
\* handler calls it after its writes, so the query reads the tables as the
\* step leaves them
fetchRequests(s, ok) ==
  requests' = [requests EXCEPT ![s] =
                 IF ok THEN FetchedRequests(sessionUser(s))' ELSE @]

\* the realtime callback on join_requests and the mount effect
OnJoinRequestsChange(s, ok) ==
  /\ UNCHANGED <<ext, db, pc, cur, issued>>
  /\ fetchRequests(s, ok)
  /\ toast' = IF ok THEN NoToast ELSE Toast(s, "Error loading requests")
  /\ lastWrite' = NoWrite

tenancyData(request) ==
  [tenant_id |-> request.tenant_id,
   unit_id |-> request.unit_id,
   rent_amount |-> request.rent_amount,
   status |-> "active",
   via |-> "approveRequest",
   request |-> request.id]

\* variant: the error of the tenancy insert is not thrown
ApproveInsertTenancy_nothrow(s, request, netOk) ==
  /\ pc[s] = "idle"
  /\ request \in requests[s]
  /\ Len(tenancies) < MaxTenancies
  /\ LET ok == netOk /\ CanInsertTenancy(sessionUser(s), tenancyData(request))
         w == Write(s, "approveRequest", "tenancies.insert", ok)
     IN /\ lastWrite' = w
        /\ tenancies' = IF ok THEN Append(tenancies, tenancyData(request))
                        ELSE tenancies
        /\ pc' = [pc EXCEPT ![s] = "insertedTenancy"]
        /\ cur' = [cur EXCEPT ![s] = request]
        /\ issued' = [issued EXCEPT ![s] = << w >>]
        /\ toast' = NoToast
  /\ UNCHANGED <<ext, profiles, units, join_requests, requests>>

\* approveRequest, up to the result of the tenancy insert
ApproveInsertTenancy(s, request, netOk) ==
  /\ pc[s] = "idle"
  /\ request \in requests[s]
  /\ Len(tenancies) < MaxTenancies
  /\ LET ok == netOk /\ CanInsertTenancy(sessionUser(s), tenancyData(request))
         w == Write(s, "approveRequest", "tenancies.insert", ok)
     IN /\ lastWrite' = w
        /\ IF ok
           THEN /\ tenancies' = Append(tenancies, tenancyData(request))
                /\ pc' = [pc EXCEPT ![s] = "insertedTenancy"]
                /\ cur' = [cur EXCEPT ![s] = request]
                /\ issued' = [issued EXCEPT ![s] = << w >>]
                /\ toast' = NoToast
           ELSE /\ tenancies' = tenancies
                /\ pc' = pc
                /\ cur' = cur
                /\ issued' = issued
                /\ toast' = Toast(s, "Error approving request")
  /\ UNCHANGED <<ext, profiles, units, join_requests, requests>>

\* variant: the error of the status update is not thrown
ApproveUpdateRequest_nothrow(s, ok) ==
  /\ pc[s] = "insertedTenancy"
  /\ LET w == Write(s, "approveRequest", "join_requests.update", ok)
     IN /\ lastWrite' = w
        /\ join_requests' =
             IF ok
             THEN UpdateRequestRow(sessionUser(s), cur[s].id, "approved",
                                   join_requests[cur[s].id].rejection_reason)
             ELSE join_requests
        /\ pc' = [pc EXCEPT ![s] = "updatedRequest"]
        /\ cur' = cur
        /\ issued' = [issued EXCEPT ![s] = Append(@, w)]
        /\ toast' = NoToast
  /\ UNCHANGED <<ext, profiles, units, tenancies, requests>>

\* approveRequest, from the tenancy insert to the result of the status update
ApproveUpdateRequest(s, ok) ==
  /\ pc[s] = "insertedTenancy"
  /\ LET w == Write(s, "approveRequest", "join_requests.update", ok)
     IN /\ lastWrite' = w
        /\ IF ok
           THEN /\ join_requests' =
                     UpdateRequestRow(sessionUser(s), cur[s].id, "approved",
                                      join_requests[cur[s].id].rejection_reason)
                /\ pc' = [pc EXCEPT ![s] = "updatedRequest"]
                /\ cur' = cur
                /\ issued' = [issued EXCEPT ![s] = Append(@, w)]
                /\ toast' = NoToast
           ELSE /\ join_requests' = join_requests
                /\ pc' = [pc EXCEPT ![s] = "idle"]
                /\ cur' = [cur EXCEPT ![s] = NoCur]
                /\ issued' = [issued EXCEPT ![s] = << >>]
                /\ toast' = Toast(s, "Error approving request")
  /\ UNCHANGED <<ext, profiles, units, tenancies, requests>>

\* variant: the error of the unit update is thrown to the catch block
ApproveUpdateUnit_throw(s, ok, fetchOk) ==
  /\ pc[s] = "updatedRequest"
  /\ IF cur[s].unit_id # NoUnit
     THEN /\ lastWrite' = Write(s, "approveRequest", "units.update", ok)
          /\ units' = IF ok THEN UpdateUnitOccupied(sessionUser(s),
                                                    cur[s].unit_id)
                            ELSE units
     ELSE /\ lastWrite' = NoWrite
          /\ units' = units
  /\ pc' = [pc EXCEPT ![s] = "idle"]
  /\ cur' = [cur EXCEPT ![s] = NoCur]
  /\ issued' = [issued EXCEPT ![s] = << >>]
  /\ UNCHANGED <<ext, profiles, join_requests, tenancies>>
  /\ IF cur[s].unit_id # NoUnit /\ ~ ok
     THEN /\ toast' = Toast(s, "Error approving request")
          /\ requests' = requests
     ELSE /\ toast' = Toast(s, "Request approved")
          /\ fetchRequests(s, fetchOk)

\* approveRequest, from the status update to the end
ApproveUpdateUnit(s, ok, fetchOk) ==
  /\ pc[s] = "updatedRequest"
  /\ IF cur[s].unit_id # NoUnit
     THEN /\ lastWrite' = Write(s, "approveRequest", "units.update", ok)
          /\ units' = IF ok THEN UpdateUnitOccupied(sessionUser(s),
                                                    cur[s].unit_id)
                            ELSE units
     ELSE /\ lastWrite' = NoWrite
          /\ units' = units
  /\ pc' = [pc EXCEPT ![s] = "idle"]
  /\ cur' = [cur EXCEPT ![s] = NoCur]
  /\ issued' = [issued EXCEPT ![s] = << >>]
  /\ toast' = Toast(s, "Request approved")
  /\ UNCHANGED <<ext, profiles, join_requests, tenancies>>
  /\ fetchRequests(s, fetchOk)

\* variant: the catch block also closes and clears the dialog
rejectRequest_close(s, selectedRequest, rejectionReason, ok, fetchOk) ==
  /\ pc[s] = "idle"
  /\ selectedRequest # NoCur
  /\ lastWrite' = Write(s, "rejectRequest", "join_requests.update", ok)
  /\ UNCHANGED <<extNoDialog, profiles, units, tenancies, pc, cur, issued>>
  /\ dialog' = [dialog EXCEPT ![s] = ClosedDialog]
  /\ IF ok
     THEN /\ join_requests' = UpdateRequestRow(sessionUser(s),
                                  selectedRequest.id, "rejected",
                                  IF Trim(rejectionReason) = "" THEN NULL
                                  ELSE Trim(rejectionReason))
          /\ toast' = Toast(s, "Request rejected")
          /\ fetchRequests(s, fetchOk)
     ELSE /\ join_requests' = join_requests
          /\ requests' = requests
          /\ toast' = Toast(s, "Error rejecting request")

\* rejectRequest() with the selectedRequest and rejectionReason it reads
rejectRequest(s, selectedRequest, rejectionReason, ok, fetchOk) ==
  /\ pc[s] = "idle"
  /\ selectedRequest # NoCur
  /\ lastWrite' = Write(s, "rejectRequest", "join_requests.update", ok)
  /\ UNCHANGED <<extNoDialog, profiles, units, tenancies, pc, cur, issued>>
  /\ IF ok
     THEN /\ join_requests' = UpdateRequestRow(sessionUser(s),
                                  selectedRequest.id, "rejected",
                                  IF Trim(rejectionReason) = "" THEN NULL
                                  ELSE Trim(rejectionReason))
          /\ toast' = Toast(s, "Request rejected")
          /\ dialog' = [dialog EXCEPT ![s] = ClosedDialog]
          /\ fetchRequests(s, fetchOk)
     ELSE /\ join_requests' = join_requests
          /\ requests' = requests
          /\ dialog' = dialog
          /\ toast' = Toast(s, "Error rejecting request")

\* the Reject button of a listed request
OpenRejectDialog(s, request) ==
  /\ request \in requests[s]
  /\ dialog' = [dialog EXCEPT ![s].open = TRUE,
                              ![s].selectedRequest = request]
  /\ lastWrite' = NoWrite
  /\ toast' = NoToast
  /\ UNCHANGED <<extNoDialog, db, requests, pc, cur, issued>>

\* typing in the Textarea of the open dialog
SetRejectionReason(s, value) ==
  /\ dialog[s].open
  /\ dialog' = [dialog EXCEPT ![s].rejectionReason = value]
  /\ lastWrite' = NoWrite
  /\ toast' = NoToast
  /\ UNCHANGED <<extNoDialog, db, requests, pc, cur, issued>>

\* Cancel, or closing the dialog: only showRejectDialog changes
CancelRejectDialog(s) ==
  /\ dialog[s].open
  /\ dialog' = [dialog EXCEPT ![s].open = FALSE]
  /\ lastWrite' = NoWrite
  /\ toast' = NoToast
  /\ UNCHANGED <<extNoDialog, db, requests, pc, cur, issued>>

\* the Reject Request button of the open dialog
RejectDialogSubmit(s, ok, fetchOk) ==
  /\ dialog[s].open
  /\ rejectRequest(s, dialog[s].selectedRequest, dialog[s].rejectionReason,
                   ok, fetchOk)

\* ------------------------------------------------ JoinPropertySearch component
VacantUnits(p) ==
  {i \in UnitIds : units[i].property_id = p /\ units[i].status = "vacant"}

requestData(t, selectedProperty, selectedUnit) ==
  [tenant_id |-> sessionUser(t),
   property_id |-> selectedProperty,
   unit_id |-> selectedUnit,
   status |-> DefaultStatus,
   rejection_reason |-> NULL,
   updated_by |-> NULL]

CanInsertJoinRequest(u, row) ==
  JoinRequestPolicy(u, row) /\ JoinRequestUnique(row)

\* the rows fetchMyRequests() returns (of join_requests, for the tenant)
MyRequests(u) ==
  { [id |-> i, status |-> join_requests[i].status,
     rejection_reason |-> join_requests[i].rejection_reason] :
      i \in {j \in RequestIds : /\ join_requests[j].tenant_id = u
                                /\ JoinRequestPolicy(u, join_requests[j])} }

\* variant: a submitted request becomes a tenancy at once
submitRequest_tenancy(t, selectedProperty, selectedUnit, netOk) ==
  /\ VacantUnits(selectedProperty) # {}
  /\ selectedUnit \in {NoUnit} \cup VacantUnits(selectedProperty)
  /\ Len(join_requests) < MaxRequests
  /\ LET row == requestData(t, selectedProperty, selectedUnit)
         ok == netOk /\ CanInsertJoinRequest(sessionUser(t), row)
         auto == ok /\ Len(tenancies) < MaxTenancies
     IN /\ lastWrite' = Write(t, "submitRequest", "join_requests.insert", ok)
        /\ UNCHANGED <<dialog, payments, rest, profiles, units, requests,
                       pc, cur, issued>>
        /\ join_requests' = IF ok THEN Append(join_requests, row)
                            ELSE join_requests
        /\ tenantView' = [tenantView EXCEPT ![t].searchRequests =
                            IF ok THEN MyRequests(sessionUser(t))' ELSE @]
        /\ tenancies' =
             IF auto
             THEN Append(tenancies,
                         [tenant_id |-> row.tenant_id, unit_id |-> row.unit_id,
                          rent_amount |-> 0, status |-> "active",
                          via |-> "submitRequest",
                          request |-> Len(join_requests) + 1])
             ELSE tenancies
        /\ toast' = IF ok THEN Toast(t, "Request submitted")
                    ELSE Toast(t, "Error submitting request")

\* the Request button is enabled for a property with a vacant unit; the
\* dialog offers "any" (NoUnit) and the vacant units of the property
submitRequest(t, selectedProperty, selectedUnit, netOk) ==
  /\ VacantUnits(selectedProperty) # {}
  /\ selectedUnit \in {NoUnit} \cup VacantUnits(selectedProperty)
  /\ Len(join_requests) < MaxRequests
  /\ LET row == requestData(t, selectedProperty, selectedUnit)
         ok == netOk /\ CanInsertJoinRequest(sessionUser(t), row)
     IN /\ lastWrite' = Write(t, "submitRequest", "join_requests.insert", ok)
        /\ UNCHANGED <<dialog, payments, rest, profiles, units, tenancies,
                       requests, pc, cur, issued>>
        /\ IF ok
           THEN /\ join_requests' = Append(join_requests, row)
                /\ toast' = Toast(t, "Request submitted")
                /\ tenantView' = [tenantView EXCEPT ![t].searchRequests =
                                    MyRequests(sessionUser(t))']
           ELSE /\ join_requests' = join_requests
                /\ toast' = Toast(t, "Error submitting request")
                /\ tenantView' = tenantView

\* ---------------------------------------------------------- UnitForm component
UnitFormSubmit(s, property_id, status, rent_amount, netOk) ==
  /\ property_id \in OwnedProperties(sessionUser(s))
  /\ Len(units) < MaxUnits
  /\ LET row == [property_id |-> property_id, rent_amount |-> rent_amount,
                 status |-> status]
         ok == netOk /\ landlord_units_access(sessionUser(s), row)
     IN /\ lastWrite' = Write(s, "UnitForm.handleSubmit", "units.insert", ok)
        /\ IF ok
           THEN /\ units' = Append(units, row)
                /\ toast' = Toast(s, "Unit added successfully")
           ELSE /\ units' = units
                /\ toast' = Toast(s, "Error adding unit")
  /\ UNCHANGED <<ext, profiles, join_requests, tenancies, requests, pc, cur,
                 issued>>

\* ---------------------------------------------------- TenantManagement component
\* .single() yields data only when exactly one visible row matches
existingUser(u, email) ==
  LET rows == {p \in profiles : p.email = email /\ ProfileSelectPolicy(u, p)}
  IN IF Cardinality(rows) = 1 THEN (CHOOSE p \in rows : TRUE).user_id
     ELSE NULL

AvailableUnits(u) ==
  {i \in UnitIds : landlord_units_access(u, units[i])
                   /\ units[i].status = "vacant"}

handleAddTenant(s, email, unitId, rentAmount, profileOk, tenancyOk, unitOk) ==
  /\ pc[s] = "idle"
  /\ unitId \in AvailableUnits(sessionUser(s))
  /\ Len(tenancies) < MaxTenancies
  /\ LET u == sessionUser(s)
         found == existingUser(u, email)
         newProfile == [user_id |-> NULL, email |-> email, role |-> "tenant"]
         inserted == /\ found = NULL
                     /\ profileOk
                     /\ ProfileInsertPolicy(u, newProfile)
                     /\ ProfileUnique(newProfile)
         tenantUserId == IF found # NULL THEN found ELSE newProfile.user_id
         row == [tenant_id |-> tenantUserId, unit_id |-> unitId,
                 rent_amount |-> rentAmount, status |-> "active",
                 via |-> "handleAddTenant", request |-> NoRequest]
         created == /\ found # NULL \/ inserted
                    /\ tenancyOk
                    /\ CanInsertTenancy(u, row)
     IN /\ profiles' = IF inserted THEN profiles \cup {newProfile}
                       ELSE profiles
        /\ tenancies' = IF created THEN Append(tenancies, row) ELSE tenancies
        /\ units' = IF created /\ unitOk THEN UpdateUnitOccupied(u, unitId)
                    ELSE units
        /\ lastWrite' =
             IF ~ (found # NULL \/ inserted)
             THEN Write(s, "handleAddTenant", "profiles.insert", FALSE)
             ELSE IF ~ created
             THEN Write(s, "handleAddTenant", "tenancies.insert", FALSE)
             ELSE Write(s, "handleAddTenant", "units.update", unitOk)
        /\ toast' = IF created /\ unitOk
                    THEN Toast(s, "Tenant added successfully")
                    ELSE Toast(s, "Error adding tenant")
  /\ UNCHANGED <<ext, join_requests, requests, pc, cur, issued>>

\* ------------------------------------------------- tenant-side components
PaymentIds == 1..Len(payments)
PaymentAmounts == {1, 700}
PaymentMethods == {"momo", "card"}
\* new Date().toISOString().split('T')[0], as a day of the current month
Today == {1}

\* tenant_payments_access / landlord_payments_access
tenant_payments_access(u, row) ==
  \/ \E k \in TenancyIds :
        k = row.tenancy_id /\ tenancies[k].tenant_id = u
  \/ get_user_role(u) = "admin"

landlord_payments_access(u, row) ==
  \/ \E k \in TenancyIds :
        k = row.tenancy_id /\ tenancies[k].unit_id \in OwnedUnits(u)
  \/ get_user_role(u) = "admin"

PaymentPolicy(u, row) ==
  tenant_payments_access(u, row) \/ landlord_payments_access(u, row)

\* rows of tenancies / payments / join_requests the tenant's queries return
TenantTenancies(u) ==
  { [id |-> k, rent_amount |-> tenancies[k].rent_amount,
     status |-> tenancies[k].status] :
      k \in {j \in TenancyIds : /\ tenancies[j].tenant_id = u
                                /\ TenancyPolicy(u, tenancies[j])} }

TenantPayments(u) ==
  { [id |-> i, tenancy_id |-> payments[i].tenancy_id,
     amount |-> payments[i].amount, status |-> payments[i].status] :
      i \in {j \in PaymentIds :
               /\ \E row \in TenantTenancies(u) :
                     row.id = payments[j].tenancy_id
               /\ PaymentPolicy(u, payments[j])} }

\* TenantDashboard.fetchTenantData(): both lists are set, or neither
fetchTenantData(t, ok) ==
  tenantView' = [tenantView EXCEPT
    ![t].tenancies = IF ok THEN TenantTenancies(sessionUser(t))' ELSE @,
    ![t].payments = IF ok THEN TenantPayments(sessionUser(t))' ELSE @]

\* variant: the callback marks the tenant's pending requests as seen
OnSearchRequestsChange_write(t, ok) ==
  /\ UNCHANGED <<profiles, units, tenancies, pending, payments, rest>>
  /\ join_requests' =
       [i \in RequestIds |->
          IF join_requests[i].tenant_id = sessionUser(t)
          THEN [join_requests[i] EXCEPT !.updated_by = sessionUser(t)]
          ELSE join_requests[i]]
  /\ tenantView' = [tenantView EXCEPT ![t].searchRequests =
                      IF ok THEN MyRequests(sessionUser(t))' ELSE @]
  /\ toast' = IF ok THEN NoToast ELSE Toast(t, "Error loading requests")
  /\ lastWrite' = NoWrite

\* JoinPropertySearch: mount effect and join_requests_changes callback
OnSearchRequestsChange(t, ok) ==
  /\ UNCHANGED <<db, pending, payments, rest>>
  /\ tenantView' = [tenantView EXCEPT ![t].searchRequests =
                      IF ok THEN MyRequests(sessionUser(t))' ELSE @]
  /\ toast' = IF ok THEN NoToast ELSE Toast(t, "Error loading requests")
  /\ lastWrite' = NoWrite

\* TenantDashboard: mount effect and tenant-tenancies callback
OnTenantTenanciesChange(t, ok) ==
  /\ UNCHANGED <<db, pending, payments, rest>>
  /\ fetchTenantData(t, ok)
  /\ toast' = IF ok THEN NoToast ELSE Toast(t, "Error loading data")
  /\ lastWrite' = NoWrite

\* TenantDashboard: mount effect and tenant-requests callback
OnTenantRequestsChange(t, ok) ==
  /\ UNCHANGED <<db, pending, payments, rest>>
  /\ tenantView' = [tenantView EXCEPT ![t].requests =
                      IF ok THEN MyRequests(sessionUser(t))' ELSE @]
  /\ toast' = IF ok THEN NoToast ELSE Toast(t, "Error loading requests")
  /\ lastWrite' = NoWrite

\* activeTenancies[0]: the newest active tenancy of the fetched list
HasCurrentTenancy(t) ==
  \E row \in tenantView[t].tenancies : row.status = "active"

currentTenancy(t) ==
  CHOOSE row \in tenantView[t].tenancies :
    /\ row.status = "active"
    /\ \A other \in tenantView[t].tenancies :
          other.status = "active" => other.id <= row.id

\* PaymentInterface.handlePayment for the tenancy chosen with Pay Rent, then
\* onSuccess = handlePaymentSuccess, which calls fetchTenantData()
handlePayment(t, amount, paymentMethod, today, netOk) ==
  /\ HasCurrentTenancy(t)
  /\ Len(payments) < MaxPayments
  /\ LET tenancy == currentTenancy(t)
         row == [tenancy_id |-> tenancy.id,
                 amount |-> amount,
                 payment_date |-> today,
                 status |-> "pending",
                 method |-> IF paymentMethod = "momo" THEN "MTN MoMo"
                            ELSE "Credit Card"]
         ok == /\ netOk
               /\ PaymentPolicy(sessionUser(t), row)
               /\ row.tenancy_id \in TenancyIds
     IN /\ lastWrite' = Write(t, "handlePayment", "payments.insert", ok)
        /\ UNCHANGED <<db, pending, rest>>
        /\ IF ok
           THEN /\ payments' = Append(payments, row)
                /\ toast' = Toast(t, "Payment initiated")
                /\ fetchTenantData(t, TRUE)
           ELSE /\ payments' = payments
                /\ toast' = Toast(t, "Payment failed")
                /\ tenantView' = tenantView

\* ------------------------------------- property visibility and search
\* SELECT policies of properties: the owner and the admin read a row
landlord_properties_access(u, p) ==
  landlord_id(p) = u \/ get_user_role(u) = "admin"

\* the sets of rows of properties a user may be shown: policies are
\* permissive, so a further SELECT policy can only add rows to those
\* landlord_properties_access shows
ReadableProperties(u) ==
  { v \in SUBSET PropertyIds :
      \A p \in PropertyIds : landlord_properties_access(u, p) => p \in v }

\* the search box: untouched or blank, part of every name, one name
SearchTerms == {"", "  ", "P", "P2"}

\* name.ilike.%term% OR address.ilike.%term% OR city.ilike.%term%, the
\* property's id standing for its name
Matches(searchTerm, p) == searchTerm = "P" \/ searchTerm = p

\* variant: the query does not filter on is_searchable
searchProperties_all(t, searchTerm, visible, ok) ==
  /\ UNCHANGED <<db, pending, payments, tenantView, lastWrite>>
  /\ UNCHANGED <<is_searchable, visibility, payoutState, collectionData,
                 authState>>
  /\ lastToggle' = NoToggle
  /\ IF Trim(searchTerm) = ""
     THEN /\ searchView' = [searchView EXCEPT ![t] =
                [properties |-> {}, searchTerm |-> searchTerm,
                 hidden |-> {p \in PropertyIds : ~is_searchable[p]}]]
          /\ toast' = toast
     ELSE IF ok
     THEN /\ searchView' = [searchView EXCEPT ![t] =
                [properties |-> {p \in visible : Matches(searchTerm, p)},
                 searchTerm |-> searchTerm,
                 hidden |-> {p \in PropertyIds : ~is_searchable[p]}]]
          /\ toast' = toast
     ELSE /\ searchView' = searchView
          /\ toast' = Toast(t, "Error searching properties")

\* JoinPropertySearch.searchProperties(): a blank term empties the list
\* without a query; otherwise the rows shown to the user that are
\* searchable and match the term; on an error the list is kept
searchProperties(t, searchTerm, visible, ok) ==
  /\ UNCHANGED <<db, pending, payments, tenantView, lastWrite>>
  /\ UNCHANGED <<is_searchable, visibility, payoutState, collectionData,
                 authState>>
  /\ lastToggle' = NoToggle
  /\ IF Trim(searchTerm) = ""
     THEN /\ searchView' = [searchView EXCEPT ![t] =
                [properties |-> {}, searchTerm |-> searchTerm,
                 hidden |-> {p \in PropertyIds : ~is_searchable[p]}]]
          /\ toast' = toast
     ELSE IF ok
     THEN /\ searchView' = [searchView EXCEPT ![t] =
                [properties |-> {p \in visible : /\ is_searchable[p]
                                                 /\ Matches(searchTerm, p)},
                 searchTerm |-> searchTerm,
                 hidden |-> {p \in PropertyIds : ~is_searchable[p]}]]
          /\ toast' = toast
     ELSE /\ searchView' = searchView
          /\ toast' = Toast(t, "Error searching properties")

\* PropertyVisibility.fetchProperties(): the landlord's own properties
fetchProperties(s, ok) ==
  /\ UNCHANGED <<db, pending, payments, tenantView, lastWrite>>
  /\ UNCHANGED <<is_searchable, searchView, payoutState, collectionData,
                 authState>>
  /\ lastToggle' = NoToggle
  /\ IF ok
     THEN /\ visibility' = [visibility EXCEPT ![s] =
                { [id |-> p, is_searchable |-> is_searchable[p]] :
                    p \in {q \in PropertyIds :
                             /\ landlord_id(q) = sessionUser(s)
                             /\ landlord_properties_access(sessionUser(s),
                                                           q)} }]
          /\ toast' = toast
     ELSE /\ visibility' = visibility
          /\ toast' = Toast(s, "Error loading properties")

\* PropertyVisibility.toggleSearchability(propertyId, currentValue), called
\* by the Switch of a listed property with the value the list shows
toggleSearchability(s, propertyId, currentValue, ok) ==
  /\ [id |-> propertyId, is_searchable |-> currentValue] \in visibility[s]
  /\ UNCHANGED <<db, pending, payments, tenantView>>
  /\ UNCHANGED <<searchView, payoutState, collectionData, authState>>
  /\ lastWrite' = Write(s, "toggleSearchability", "properties.update", ok)
  /\ IF ok
     THEN /\ is_searchable' =
               [p \in PropertyIds |->
                  IF /\ p = propertyId
                     /\ landlord_id(p) = sessionUser(s)
                     /\ landlord_properties_access(sessionUser(s), p)
                  THEN ~currentValue
                  ELSE is_searchable[p]]
          /\ visibility' = [visibility EXCEPT ![s] =
               { IF row.id = propertyId
                 THEN [row EXCEPT !.is_searchable = ~currentValue]
                 ELSE row : row \in visibility[s] }]
          /\ toast' = Toast(s, IF ~currentValue
                               THEN "Property made searchable"
                               ELSE "Property hidden from search")
          /\ lastToggle' = [session |-> s, id |-> propertyId,
                            before |-> is_searchable[propertyId]]
     ELSE /\ UNCHANGED <<is_searchable, visibility>>
          /\ toast' = Toast(s, "Error updating property")
          /\ lastToggle' = NoToggle

\* ------------------------------------------------ PayoutRequests component
\* the session in which the landlord uses the payout and rent pages
PayoutAmounts == {300, 700, 1500}
PayoutIds == 1..Len(payouts)
PaymentStatuses == {"pending", "completed"}

\* reduce((sum, row) => sum + Number(row.amount), 0) over the rows ids
RECURSIVE SumAmounts(_, _)
SumAmounts(rows, ids) ==
  IF ids = {} THEN 0
  ELSE LET i == CHOOSE j \in ids : TRUE
       IN rows[i].amount + SumAmounts(rows, ids \ {i})

\* the payments query of fetchPayoutData: the filter on the embedded
\* landlord_id does not remove payments rows, .eq('status', 'completed')
\* and row-level security do
CompletedPayments(u) ==
  {i \in PaymentIds : /\ payments[i].status = "completed"
                      /\ PaymentPolicy(u, payments[i])}

\* totalPayments - totalPayouts of fetchPayoutData
Balance(u) ==
  SumAmounts(payments, CompletedPayments(u))
    - SumAmounts(payouts,
                 {i \in PayoutIds : payouts[i].status = "completed"})

\* PayoutRequests.fetchPayoutData(): the balance and the stored list are
\* set together, or an error is reported
fetchPayoutData(s, ok) ==
  IF ok
  THEN payoutView' = [availableBalance |-> Balance(sessionUser(s))',
                      payouts |-> payouts']
  ELSE payoutView' = payoutView

\* mount effect of PayoutRequests
OnPayoutMount(s, ok) ==
  /\ UNCHANGED <<db, pending, payments, tenantView, lastWrite>>
  /\ UNCHANGED <<searchState, payouts, collectionData, authState>>
  /\ fetchPayoutData(s, ok)
  /\ toast' = IF ok THEN toast ELSE Toast(s, "Error loading payout data")

\* variant: the amount is not compared with the balance
handleRequestPayout_nocheck(s, amount, fetchOk) ==
  /\ Len(payouts) < MaxPayouts
  /\ UNCHANGED <<db, pending, payments, tenantView>>
  /\ UNCHANGED <<searchState, collectionData, authState>>
  /\ payouts' = << [amount |-> amount, status |-> "pending"] >> \o payouts
  /\ lastWrite' = Write(s, "handleRequestPayout", "localStorage.setItem",
                        TRUE)
  /\ fetchPayoutData(s, fetchOk)
  /\ toast' = IF fetchOk THEN Toast(s, "Payout requested")
              ELSE Toast(s, "Error loading payout data")

\* PayoutRequests.handleRequestPayout(): Number(payoutForm.amount) is
\* compared with the availableBalance the component holds
handleRequestPayout(s, amount, fetchOk) ==
  /\ Len(payouts) < MaxPayouts
  /\ UNCHANGED <<db, pending, payments, tenantView>>
  /\ UNCHANGED <<searchState, collectionData, authState>>
  /\ IF amount > payoutView.availableBalance
     THEN /\ toast' = Toast(s, "Insufficient balance")
          /\ lastWrite' = NoWrite
          /\ UNCHANGED <<payouts, payoutView>>
     ELSE /\ payouts' =
               << [amount |-> amount, status |-> "pending"] >> \o payouts
          /\ lastWrite' = Write(s, "handleRequestPayout",
                                "localStorage.setItem", TRUE)
          /\ fetchPayoutData(s, fetchOk)
          /\ toast' = IF fetchOk THEN Toast(s, "Payout requested")
                      ELSE Toast(s, "Error loading payout data")

\* ------------------------------------------------- signup and Dashboard
\* users who sign up later, and raw_user_meta_data->>'role' of a signup:
\* absent, a label of user_role, or another text
NewUsers == {"N1", "N2"}
MetaRoles == {NULL, "landlord", "tenant", "admin", "manager"}

\* variant: the role text is stored without the cast to user_role
handle_new_user_nocast(id, metaRole) ==
  [ok |-> TRUE,
   row |-> [user_id |-> id, email |-> id,
            role |-> IF metaRole = NULL THEN "tenant" ELSE metaRole]]

\* handle_new_user(): the row it inserts into profiles, or the failure of
\* the cast of a text that is no label of user_role
handle_new_user(id, metaRole) ==
  [ok |-> metaRole = NULL \/ metaRole \in user_role,
   row |-> [user_id |-> id, email |-> id,
            role |-> IF metaRole = NULL THEN "tenant" ELSE metaRole]]

\* INSERT INTO auth.users with the trigger on_auth_user_created: the user
\* and the profile are inserted in one transaction, or neither
SignUp(id, metaRole) ==
  /\ id \notin authUsers
  /\ LET new == handle_new_user(id, metaRole)
         ok == new.ok /\ ProfileUnique(new.row)
     IN /\ lastWrite' = Write(id, "signUp", "auth.users.insert", ok)
        /\ authUsers' = IF ok THEN authUsers \cup {id} ELSE authUsers
        /\ profiles' = IF ok THEN profiles \cup {new.row} ELSE profiles
  /\ UNCHANGED <<units, join_requests, tenancies, pending, payments,
                 tenantView, toast>>
  /\ UNCHANGED <<searchState, payoutState, collectionData, authProfile,
                 view>>

\* the users who call the API directly: an old one and a new one
ApiUsers == {"T1", "N1"}

\* "Users can update their own profile": USING (auth.uid() = user_id), which
\* also checks the new row
ProfileUpdatePolicy(u, row) == row.user_id = u

\* a signed-in user inserts a profiles row through the API
DirectInsertProfile(u, userId, role) ==
  /\ u \in authUsers
  /\ LET row == [user_id |-> userId, email |-> u, role |-> role]
         ok == /\ role \in user_role
               /\ ProfileInsertPolicy(u, row)
               /\ ProfileUnique(row)
     IN /\ lastWrite' = Write(u, "api", "profiles.insert", ok)
        /\ profiles' = IF ok THEN profiles \cup {row} ELSE profiles
  /\ UNCHANGED <<units, join_requests, tenancies, pending, payments,
                 tenantView, toast, rest>>

\* a signed-in user updates the role of the profiles rows of a user through
\* the API
DirectUpdateProfile(u, userId, role) ==
  /\ u \in authUsers
  /\ LET ok == role \in user_role
     IN /\ lastWrite' = Write(u, "api", "profiles.update", ok)
        /\ profiles' =
             IF ok
             THEN { IF /\ p.user_id = userId
                       /\ ProfileUpdatePolicy(u, p)
                       /\ ProfileUpdatePolicy(u, [p EXCEPT !.role = role])
                    THEN [p EXCEPT !.role = role]
                    ELSE p : p \in profiles }
             ELSE profiles
  /\ UNCHANGED <<units, join_requests, tenancies, pending, payments,
                 tenantView, toast, rest>>

\* what useAuth() hands to Dashboard: no profile, or a profile whose role is
\* a label of user_role, another text or empty
ProfileInputs ==
  {NoProfile} \cup [user_id : {"L1"}, email : {"L1"},
                    role : user_role \cup {"manager", ""}]

\* variant: the default branch renders the tenant's dashboard
renderDashboard_default(profile) ==
  CASE profile.role = "landlord" -> "LandlordDashboard"
    [] profile.role = "admin" -> "AdminDashboard"
    [] OTHER -> "TenantDashboard"

\* Dashboard.renderDashboard(): switch (profile.role)
renderDashboard(profile) ==
  CASE profile.role = "landlord" -> "LandlordDashboard"
    [] profile.role = "tenant" -> "TenantDashboard"
    [] profile.role = "admin" -> "AdminDashboard"
    [] OTHER -> "Unknown Role"

\* Dashboard: the loading view while there is no profile
Dashboard(profile) ==
  IF profile = NoProfile THEN "loading" ELSE renderDashboard(profile)

\* a render of Dashboard with the profile of useAuth()
DashboardRender(profile) ==
  /\ authProfile' = profile
  /\ view' = Dashboard(profile)
  /\ UNCHANGED <<db, pending, payments, tenantView, lastWrite, toast>>
  /\ UNCHANGED <<searchState, payoutState, collectionData, authUsers>>

\* ------------------------------------------------ RentCollection component
\* payment_date as a day: 1..LastDay are the days of the selected month, 0
\* is the last day of the month before and LastDay + 1 the first day of the
\* month after
Days == 0..(LastDay + 1)

\* the browser's offset from UTC: west of it, none, east of it
TimeZones == {-1, 0, 1}

\* startDate.toISOString().split('T')[0], where startDate is
\* new Date(selectedMonth + '-01'): midnight UTC of the first day
StartDateStr == 1

\* endDate.toISOString().split('T')[0], where endDate is
\* new Date(startDate.getFullYear(), startDate.getMonth() + 1, 0): local
\* midnight of the last day of the month that holds startDate in local
\* time. West of UTC startDate falls in the month before, whose last day is
\* kept by the conversion to UTC; east of UTC local midnight of the last
\* day is still the day before in UTC.
EndDateStr(tz) ==
  IF tz < 0 THEN 0 ELSE IF tz = 0 THEN LastDay ELSE LastDay - 1

\* the tenancies query: active tenancies the user is shown
ActiveTenancies(u) ==
  {k \in TenancyIds : /\ tenancies[k].status = "active"
                      /\ TenancyPolicy(u, tenancies[k])}

\* the payments query: payments of these tenancies dated from the start to
\* the end string
MonthPayments(u, tz) ==
  {i \in PaymentIds : /\ payments[i].payment_date >= StartDateStr
                      /\ payments[i].payment_date <= EndDateStr(tz)
                      /\ payments[i].tenancy_id \in ActiveTenancies(u)
                      /\ PaymentPolicy(u, payments[i])}

Max(a, b) == IF a >= b THEN a ELSE b

\* processedData of fetchRentCollectionData
RentCollectionData(u, tz) ==
  { LET tenancyPayments == {i \in MonthPayments(u, tz) :
                              payments[i].tenancy_id = k}
        totalPaid == SumAmounts(payments,
                       {i \in tenancyPayments :
                          payments[i].status = "completed"})
    IN [tenancy |-> k,
        payments |-> tenancyPayments,
        totalPaid |-> totalPaid,
        amountDue |-> Max(0, tenancies[k].rent_amount - totalPaid)] :
      k \in ActiveTenancies(u) }

\* RentCollection.fetchRentCollectionData() in a browser with offset tz
fetchRentCollectionData(s, tz, ok) ==
  /\ UNCHANGED <<db, pending, payments, tenantView, lastWrite>>
  /\ UNCHANGED <<searchState, payoutState, authState>>
  /\ IF ok
     THEN /\ collectionData' = RentCollectionData(sessionUser(s), tz)
          /\ toast' = toast
     ELSE /\ collectionData' = collectionData
          /\ toast' = Toast(s, "Error loading rent collection data")

\* ------------------------------------------------------------ specification
Next ==
  \/ \E s \in LandlordSessions, ok \in FetchResults :
       OnJoinRequestsChange(s, ok)
  \/ \E s \in LandlordSessions, ok \in BOOLEAN :
       \E request \in requests[s] : ApproveInsertTenancy(s, request, ok)
  \/ \E s \in LandlordSessions, ok \in BOOLEAN : ApproveUpdateRequest(s, ok)
  \/ \E s \in LandlordSessions, ok \in BOOLEAN, fetchOk \in FetchResults :
       ApproveUpdateUnit(s, ok, fetchOk)
  \/ \E s \in FormSessions, reason \in Reasons, ok \in FormResults,
        fetchOk \in FetchResults :
       \E request \in requests[s] :
          rejectRequest(s, request, reason, ok, fetchOk)
  \/ \E t \in TenantSessions, p \in PropertyIds, ok \in FormResults :
       \E unit \in {NoUnit} \cup UnitIds : submitRequest(t, p, unit, ok)
  \/ \E s \in FormSessions, email \in Emails, rent \in RentAmounts,
        profileOk \in FormResults, tenancyOk \in FormResults,
        unitOk \in BOOLEAN :
       \E unitId \in UnitIds :
          handleAddTenant(s, email, unitId, rent, profileOk, tenancyOk, unitOk)

Spec == Init /\ [][Next]_vars

\* the same application with the unit form in use
NextForms ==
  \/ Next
  \/ \E s \in FormSessions, p \in PropertyIds,
        status \in UnitStatusOptions, rent \in RentAmounts,
        ok \in FormResults :
       UnitFormSubmit(s, p, status, rent, ok)

SpecForms == Init /\ [][NextForms]_vars

\* the pending-requests tab with the reject dialog used step by step: open,
\* type, cancel, submit, while requests arrive and are approved
NextReject ==
  \/ \E s \in LandlordSessions, ok \in FetchResults :
       OnJoinRequestsChange(s, ok)
  \/ \E s \in LandlordSessions, ok \in FormResults :
       \E request \in requests[s] : ApproveInsertTenancy(s, request, ok)
  \/ \E s \in LandlordSessions, ok \in FormResults :
       ApproveUpdateRequest(s, ok)
  \/ \E s \in LandlordSessions, ok \in FormResults,
        fetchOk \in FetchResults :
       ApproveUpdateUnit(s, ok, fetchOk)
  \/ \E t \in TenantSessions, p \in PropertyIds, ok \in FormResults :
       \E unit \in {NoUnit} \cup UnitIds : submitRequest(t, p, unit, ok)
  \/ \E s \in FormSessions :
       \E request \in requests[s] : OpenRejectDialog(s, request)
  \/ \E s \in FormSessions, value \in Reasons : SetRejectionReason(s, value)
  \/ \E s \in FormSessions : CancelRejectDialog(s)
  \/ \E s \in FormSessions, ok \in BOOLEAN, fetchOk \in FetchResults :
       RejectDialogSubmit(s, ok, fetchOk)

SpecReject == Init /\ [][NextReject]_vars

\* the tenant's dashboard and search tab next to the landlord's approvals
NextTenant ==
  \/ \E s \in FormSessions, ok \in FetchResults :
       OnJoinRequestsChange(s, ok)
  \/ \E s \in FormSessions, ok \in FormResults :
       \E request \in requests[s] : ApproveInsertTenancy(s, request, ok)
  \/ \E s \in FormSessions, ok \in FormResults :
       ApproveUpdateRequest(s, ok)
  \/ \E s \in FormSessions, ok \in FormResults, fetchOk \in FetchResults :
       ApproveUpdateUnit(s, ok, fetchOk)
  \/ \E t \in TenantSessions, p \in PropertyIds, ok \in FormResults :
       \E unit \in {NoUnit} \cup UnitIds : submitRequest(t, p, unit, ok)
  \/ \E t \in TenantSessions, ok \in BOOLEAN : OnSearchRequestsChange(t, ok)
  \/ \E t \in TenantSessions, ok \in BOOLEAN :
       OnTenantTenanciesChange(t, ok)
  \/ \E t \in TenantSessions, ok \in BOOLEAN : OnTenantRequestsChange(t, ok)
  \/ \E t \in TenantSessions, amount \in PaymentAmounts,
        method \in PaymentMethods, today \in Today, ok \in BOOLEAN :
       handlePayment(t, amount, method, today, ok)

SpecTenant == Init /\ [][NextTenant]_vars

\* Any signed-in user may also call the database API directly; the row-level
\* policies of join_requests decide which status updates take effect.
DirectUpdateRequest(u, id, status) ==
  /\ id \in RequestIds
  /\ join_requests' = UpdateRequestRow(u, id, status,
                                       join_requests[id].rejection_reason)
  /\ lastWrite' = Write(u, "api", "join_requests.update", TRUE)
  /\ toast' = NoToast
  /\ UNCHANGED <<ext, profiles, units, tenancies, requests, pc, cur, issued>>

NextRLS ==
  \/ \E t \in TenantSessions, p \in PropertyIds, ok \in FormResults :
       \E unit \in {NoUnit} \cup UnitIds : submitRequest(t, p, unit, ok)
  \/ \E u \in Users, status \in join_request_status :
       \E id \in RequestIds : DirectUpdateRequest(u, id, status)

SpecRLS == Init /\ [][NextRLS]_vars


\* the landlord's visibility settings and the tenant's search, from any
\* setting of is_searchable
InitSearchAny ==
  /\ is_searchable \in [PropertyIds -> BOOLEAN]
  /\ visibility = [s \in LandlordSessions |-> {}]
  /\ searchView = [t \in TenantSessions |-> NoSearch]
  /\ lastToggle = NoToggle

NextSearch ==
  \/ \E s \in LandlordSessions, ok \in BOOLEAN : fetchProperties(s, ok)
  \/ \E s \in LandlordSessions, p \in PropertyIds, currentValue \in BOOLEAN,
        ok \in BOOLEAN : toggleSearchability(s, p, currentValue, ok)
  \/ \E t \in TenantSessions, searchTerm \in SearchTerms, ok \in BOOLEAN :
        \E visible \in ReadableProperties(sessionUser(t)) :
          searchProperties(t, searchTerm, visible, ok)

InitOfSearch ==
  InitWorkflow /\ InitSearchAny /\ InitPayout /\ InitRent /\ InitAuth

SpecSearch == InitOfSearch /\ [][NextSearch]_vars


\* T1 rents the unit of L1 (added by handleAddTenant)
RentedTenancy ==
  [tenant_id |-> "T1", unit_id |-> 1, rent_amount |-> 700,
   status |-> "active", via |-> "handleAddTenant", request |-> NoRequest]

\* the payments of the tenancy: any list of pending and completed payments
\* on the given days
PaymentRows(days) ==
  [tenancy_id : {1}, amount : PaymentAmounts, payment_date : days,
   status : PaymentStatuses, method : {"MTN MoMo"}]

PaymentLists(days) ==
  UNION { [1..n -> PaymentRows(days)] : n \in 0..MaxPayments }

InitRented(days) ==
  /\ units = << [property_id |-> "P1", rent_amount |-> 700,
                 status |-> "occupied"] >>
  /\ tenancies = << RentedTenancy >>
  /\ payments \in PaymentLists(days)
  /\ InitIdle

\* the payout page of L1 over any payments and any earlier payout
InitPayoutAny ==
  /\ payouts \in { << >>, << [amount |-> 300, status |-> "completed"] >> }
  /\ payoutView = [availableBalance |-> 0, payouts |-> << >>]

NextPayout ==
  \/ \E s \in FormSessions, ok \in BOOLEAN : OnPayoutMount(s, ok)
  \/ \E s \in FormSessions, amount \in PayoutAmounts, fetchOk \in BOOLEAN :
        handleRequestPayout(s, amount, fetchOk)

InitOfPayout ==
  InitRented(Today) /\ InitSearch /\ InitPayoutAny /\ InitRent /\ InitAuth

SpecPayout == InitOfPayout /\ [][NextPayout]_vars


NextAuth ==
  \/ \E id \in NewUsers, metaRole \in MetaRoles : SignUp(id, metaRole)
  \/ \E u \in ApiUsers, userId \in ApiUsers \cup {"L1"}, role \in MetaRoles :
        DirectInsertProfile(u, userId, role)
  \/ \E u \in ApiUsers, userId \in ApiUsers \cup {"L1"}, role \in MetaRoles :
        DirectUpdateProfile(u, userId, role)
  \/ \E profile \in ProfileInputs : DashboardRender(profile)

SpecAuth == Init /\ [][NextAuth]_vars


\* the rent page of L1 over any payments of the tenancy around the month
NextRent ==
  \E s \in FormSessions, tz \in TimeZones, ok \in BOOLEAN :
     fetchRentCollectionData(s, tz, ok)

InitOfRent ==
  InitRented(Days) /\ InitSearch /\ InitPayout /\ InitRent /\ InitAuth

SpecRent == InitOfRent /\ [][NextRent]_vars

\* ================================================================== claims
AllIdle == \A s \in LandlordSessions : pc[s] = "idle"

HasActiveTenancy(u) ==
  \E k \in TenancyIds :
     tenancies[k].unit_id = u /\ tenancies[k].status = "active"

ApprovalTenancies(i) ==
  {k \in TenancyIds :
     tenancies[k].via = "approveRequest" /\ tenancies[k].request = i}

\* C1: whenever no handler is in the middle of its writes, a unit is
\* 'occupied' if and only if an active tenancy references it.
C1_OccupiedIffActiveTenancy ==
  AllIdle =>
    \A u \in UnitIds : units[u].status = "occupied" <=> HasActiveTenancy(u)

\* C2: whenever no approveRequest is running, a join request is 'approved'
\* exactly when exactly one tenancy has been created for it by approval.
C2_ApprovedIffExactlyOneTenancy ==
  AllIdle =>
    \A i \in RequestIds :
       join_requests[i].status = "approved"
         <=> Cardinality(ApprovalTenancies(i)) = 1

\* C3: the step in which approveRequest shows 'Request approved' for a
\* request that names a unit ends in a state with an active tenancy for the
\* request's tenant and unit at the unit's rent, and the request 'approved'.
C3_ApprovedToastMeansApproved ==
  [][ \A s \in LandlordSessions :
        ( /\ pc[s] = "updatedRequest"
          /\ toast' = Toast(s, "Request approved")
          /\ cur[s].unit_id # NoUnit )
        => /\ \E k \in 1..Len(tenancies') :
                /\ tenancies'[k].status = "active"
                /\ tenancies'[k].tenant_id = cur[s].tenant_id
                /\ tenancies'[k].unit_id = cur[s].unit_id
                /\ tenancies'[k].rent_amount
                     = units'[cur[s].unit_id].rent_amount
           /\ join_requests'[cur[s].id].status = "approved" ]_vars

\* C4: every tenancy created by approveRequest or handleAddTenant has a
\* non-null tenant_id naming an existing profile and a non-null unit_id
\* naming an existing unit.
C4_TenancyLinksTenantAndUnit ==
  \A k \in TenancyIds :
     /\ tenancies[k].tenant_id # NULL
     /\ \E p \in profiles : p.user_id = tenancies[k].tenant_id
     /\ tenancies[k].unit_id # NoUnit
     /\ tenancies[k].unit_id \in UnitIds

C4_Witness ==
  /\ \E k \in TenancyIds : tenancies[k].via = "approveRequest"
  /\ \E k \in TenancyIds : tenancies[k].via = "handleAddTenant"
  /\ \E i \in RequestIds : join_requests[i].unit_id = NoUnit

\* C5: a submitRequest step inserts at most one join_requests row and leaves
\* tenancies, units and the existing requests unchanged; every tenancy was
\* inserted by approveRequest or handleAddTenant, and one that belongs to a
\* request by approveRequest.
C5_SubmitOnlyInsertsRequest ==
  /\ [][ lastWrite'.handler = "submitRequest"
         => /\ tenancies' = tenancies
            /\ units' = units
            /\ profiles' = profiles
            /\ \/ join_requests' = join_requests
               \/ /\ Len(join_requests') = Len(join_requests) + 1
                  /\ SubSeq(join_requests', 1, Len(join_requests))
                       = join_requests ]_vars
  /\ [](\A k \in TenancyIds :
          /\ tenancies[k].via \in {"approveRequest", "handleAddTenant"}
          /\ tenancies[k].request # NoRequest
               => tenancies[k].via = "approveRequest")

C5_Witness ==
  /\ lastWrite.handler = "submitRequest"
  /\ lastWrite.ok
  /\ toast.title = "Request submitted"
  /\ Len(tenancies) > 0

\* C6: a join request's row is updated only by the landlord who owns the
\* request's property or by an admin.
C6_OnlyLandlordOrAdminUpdates ==
  \A i \in RequestIds :
     join_requests[i].updated_by # NULL
       => \/ join_requests[i].property_id
               \in OwnedProperties(join_requests[i].updated_by)
          \/ get_user_role(join_requests[i].updated_by) = "admin"

\* C7: the step in which the join-request update of approveRequest fails
\* changes no table (the inserted tenancy remains, the request keeps its
\* status), ends the run before the unit update, and shows the error.
C7_NoCompensation ==
  [][ \A s \in LandlordSessions :
        lastWrite' = Write(s, "approveRequest", "join_requests.update", FALSE)
        => /\ tenancies' = tenancies
           /\ \E k \in 1..Len(tenancies') :
                 tenancies'[k] = tenancyData(cur[s])
           /\ join_requests' = join_requests
           /\ units' = units
           /\ pc'[s] = "idle"
           /\ toast' = Toast(s, "Error approving request") ]_vars

C7_Witness ==
  /\ \E s \in LandlordSessions :
        /\ lastWrite = Write(s, "approveRequest", "join_requests.update",
                             FALSE)
        /\ toast = Toast(s, "Error approving request")
  /\ \E k \in TenancyIds :
        /\ tenancies[k].via = "approveRequest"
        /\ join_requests[tenancies[k].request].status = "pending"

\* C8: approveRequest issues its writes in the order tenancy insert,
\* join-request update, unit update, each only after the one before it has
\* returned success.
C8_WriteOrder ==
  [][ \A s \in LandlordSessions :
        ( lastWrite'.session = s /\ lastWrite'.handler = "approveRequest" )
        => /\ lastWrite'.write = "tenancies.insert" => issued[s] = << >>
           /\ lastWrite'.write = "join_requests.update"
                => issued[s] =
                     << Write(s, "approveRequest", "tenancies.insert", TRUE) >>
           /\ lastWrite'.write = "units.update"
                => issued[s] =
                     << Write(s, "approveRequest", "tenancies.insert", TRUE),
                        Write(s, "approveRequest", "join_requests.update",
                              TRUE) >> ]_vars

C8_Witness ==
  \E s \in LandlordSessions :
     /\ lastWrite.session = s
     /\ lastWrite.handler = "approveRequest"
     /\ lastWrite.write = "units.update"

\* C9: every join request's status is one of pending, approved, rejected,
\* and a row inserted by submitRequest starts as 'pending'.
C9_StatusEnum ==
  /\ [](\A i \in RequestIds : join_requests[i].status \in join_request_status)
  /\ [][ \A i \in 1..Len(join_requests') :
           i > Len(join_requests) => join_requests'[i].status = "pending" ]_vars

C9_Witness ==
  /\ lastWrite.handler = "submitRequest"
  /\ lastWrite.ok
  /\ join_requests[Len(join_requests)].status = "pending"
  /\ \E i \in RequestIds : join_requests[i].status = "rejected"

\* C10: no tenant has two join requests for the same property and the same
\* unit choice, 'any available unit' included.
C10_NoDuplicateRequests ==
  \A i, j \in RequestIds :
     ( /\ i # j
       /\ join_requests[i].tenant_id = join_requests[j].tenant_id
       /\ join_requests[i].property_id = join_requests[j].property_id )
     => join_requests[i].unit_id # join_requests[j].unit_id

\* C16: after the step in which the tenancy insert of approveRequest fails
\* for a request, that request is 'pending' and no tenancy exists for it.
C16_FailedInsertLeavesPendingNoTenancy ==
  [][ \A s \in LandlordSessions : \A request \in requests[s] :
        ( /\ \E netOk \in BOOLEAN : ApproveInsertTenancy(s, request, netOk)
          /\ ~ lastWrite'.ok )
        => /\ join_requests'[request.id].status = "pending"
           /\ ~ \E k \in 1..Len(tenancies') :
                  /\ tenancies'[k].via = "approveRequest"
                  /\ tenancies'[k].request = request.id ]_vars

\* C17: the step in which the unit update of approveRequest fails changes no
\* table: the tenancy inserted by the run is still there and active, the
\* request keeps the status it had after the run's own update to 'approved',
\* and the step shows the success notification and ends the run.
C17_UnitFailureKeepsApproval ==
  [][ \A s \in LandlordSessions :
        lastWrite' = Write(s, "approveRequest", "units.update", FALSE)
        => /\ tenancies' = tenancies
           /\ \E k \in 1..Len(tenancies') :
                 /\ tenancies'[k] = tenancyData(cur[s])
                 /\ tenancies'[k].status = "active"
           /\ join_requests' = join_requests
           /\ issued[s][2]
                = Write(s, "approveRequest", "join_requests.update", TRUE)
           /\ units' = units
           /\ pc'[s] = "idle"
           /\ toast' = Toast(s, "Request approved") ]_vars

C17_Witness ==
  \E s \in LandlordSessions :
     /\ lastWrite = Write(s, "approveRequest", "units.update", FALSE)
     /\ toast = Toast(s, "Request approved")
     /\ \E k \in TenancyIds :
           /\ tenancies[k].via = "approveRequest"
           /\ tenancies[k].status = "active"
           /\ join_requests[tenancies[k].request].status = "approved"
           /\ units[tenancies[k].unit_id].status = "vacant"

\* C18: a rejectRequest step that succeeds changes, among the tables, only
\* the selected join request, whose status becomes 'rejected' and whose
\* rejection_reason becomes the trimmed reason, or NULL when the reason is
\* blank; it adds no tenancy and changes no unit. A rejectRequest step that
\* fails changes no table and leaves the dialog open with the selected
\* request and the typed reason.
C18_RejectChangesOnlySelected ==
  [][ \A s \in FormSessions :
        ( lastWrite'.session = s /\ lastWrite'.handler = "rejectRequest" )
        => LET sel == dialog[s].selectedRequest.id
               typed == dialog[s].rejectionReason
           IN /\ tenancies' = tenancies
              /\ units' = units
              /\ profiles' = profiles
              /\ Len(join_requests') = Len(join_requests)
              /\ \A i \in RequestIds :
                    i # sel => join_requests'[i] = join_requests[i]
              /\ lastWrite'.ok
                   => /\ join_requests'[sel].status = "rejected"
                      /\ join_requests'[sel].rejection_reason
                           = ( IF typed \in {"", "  "} THEN NULL
                               ELSE "late" )
                      /\ join_requests'[sel].tenant_id
                           = join_requests[sel].tenant_id
                      /\ join_requests'[sel].property_id
                           = join_requests[sel].property_id
                      /\ join_requests'[sel].unit_id
                           = join_requests[sel].unit_id
              /\ ~ lastWrite'.ok
                   => /\ join_requests' = join_requests
                      /\ dialog'[s].open
                      /\ dialog'[s].selectedRequest
                           = dialog[s].selectedRequest
                      /\ dialog'[s].rejectionReason = typed
                      /\ toast' = Toast(s, "Error rejecting request") ]_vars

C18_Witness ==
  \E s \in FormSessions :
     /\ lastWrite = Write(s, "rejectRequest", "join_requests.update", FALSE)
     /\ dialog[s].open
     /\ dialog[s].rejectionReason = " late "
     /\ join_requests[dialog[s].selectedRequest.id].status = "pending"
     /\ \E i \in RequestIds :
           /\ join_requests[i].status = "rejected"
           /\ join_requests[i].rejection_reason = "late"
     /\ Len(tenancies) > 0

\* C12: every payment row inserted by handlePayment is 'pending', belongs to
\* an existing tenancy, and has an amount not less than that tenancy's
\* rent_amount.
C12_PaymentAtLeastRent ==
  \A i \in PaymentIds :
     /\ payments[i].status = "pending"
     /\ payments[i].tenancy_id \in TenancyIds
     /\ payments[i].amount >= tenancies[payments[i].tenancy_id].rent_amount

\* C14: a step that handles a change notification (or a mount effect) in
\* PendingRequests, JoinPropertySearch or TenantDashboard changes no table
\* and issues no write.
C14_NotificationsOnlyFetch ==
  [][ ( \/ \E s \in LandlordSessions, ok \in BOOLEAN :
             OnJoinRequestsChange(s, ok)
        \/ \E t \in TenantSessions, ok \in BOOLEAN :
             \/ OnSearchRequestsChange(t, ok)
             \/ OnTenantTenanciesChange(t, ok)
             \/ OnTenantRequestsChange(t, ok) )
      => /\ db' = db
         /\ payments' = payments
         /\ lastWrite' = NoWrite ]_vars

C14_Witness ==
  /\ lastWrite = NoWrite
  /\ Len(join_requests) > 1
  /\ \E s \in LandlordSessions : requests[s] = FetchedRequests(sessionUser(s))
                                  /\ requests[s] # {}
  /\ \E t \in TenantSessions :
        /\ tenantView[t].searchRequests = MyRequests(sessionUser(t))
        /\ tenantView[t].requests = MyRequests(sessionUser(t))
        /\ tenantView[t].tenancies = TenantTenancies(sessionUser(t))
        /\ tenantView[t].tenancies # {}
        /\ tenantView[t].payments = TenantPayments(sessionUser(t))
        /\ tenantView[t].payments # {}

\* C11: a search sets the list to properties that are searchable when the
\* query runs, and a blank term sets it to the empty list; a successful
\* toggle that hides a property leaves it not searchable, so no search that
\* runs while it is hidden lists it
C11_OnlySearchableInSearch ==
  [][ /\ \A t \in TenantSessions, searchTerm \in SearchTerms :
           \A visible \in ReadableProperties(sessionUser(t)) :
           searchProperties(t, searchTerm, visible, TRUE) =>
             /\ \A p \in searchView'[t].properties : is_searchable[p]
             /\ Trim(searchTerm) = "" => searchView'[t].properties = {}
      /\ \A s \in LandlordSessions, p \in PropertyIds :
           toggleSearchability(s, p, TRUE, TRUE) =>
             /\ ~is_searchable'[p]
             /\ toast' = Toast(s, "Property hidden from search")
      /\ \A t \in TenantSessions :
           searchView'[t].properties \cap searchView'[t].hidden = {} ]_vars

\* a search for "P" that ran after P1 was hidden lists P2 only
C11_Witness ==
  /\ is_searchable = [p \in PropertyIds |-> p # "P1"]
  /\ \E t \in TenantSessions :
        /\ searchView[t].searchTerm = "P"
        /\ searchView[t].hidden = {"P1"}
        /\ searchView[t].properties = {"P2"}

C15_DashboardMatchesRole ==
  /\ authProfile = NoProfile => view = "loading"
  /\ authProfile # NoProfile =>
       /\ authProfile.role = "landlord" => view = "LandlordDashboard"
       /\ authProfile.role = "tenant" => view = "TenantDashboard"
       /\ authProfile.role = "admin" => view = "AdminDashboard"
       /\ authProfile.role \notin user_role => view = "Unknown Role"

\* a profile whose role is no label of user_role is shown the card
C15_Witness ==
  /\ authProfile.role = "manager"
  /\ view = "Unknown Role"

\* C20: every auth user has exactly one profile, every profile's role is a
\* label of user_role, no two profiles share a user_id, and the profile a
\* signup inserts has the role of the signup metadata, or 'tenant' when the
\* metadata has none
C20_OneProfilePerUser ==
  /\ [] /\ \A u \in authUsers :
             Cardinality({p \in profiles : p.user_id = u}) = 1
        /\ \A p \in profiles : p.role \in user_role
        /\ \A p, q \in profiles : p.user_id = q.user_id => p = q
  /\ [][ \A id \in NewUsers, metaRole \in MetaRoles :
           ( SignUp(id, metaRole) /\ id \in authUsers' )
           => \E p \in profiles' :
                 /\ p \notin profiles
                 /\ p.user_id = id
                 /\ p.role = IF metaRole = NULL THEN "tenant" ELSE metaRole
       ]_vars

\* one user signed up with a role in the metadata and one without
C20_Witness ==
  /\ authUsers = Users \cup NewUsers
  /\ [user_id |-> "N1", email |-> "N1", role |-> "landlord"] \in profiles
  /\ [user_id |-> "N2", email |-> "N2", role |-> "tenant"] \in profiles
  /\ lastWrite = Write("N2", "signUp", "auth.users.insert", TRUE)

\* C19: for every tenancy shown, totalPaid is the sum of the amounts of the
\* tenancy's completed payments dated in the selected month, and amountDue
\* is max(0, rent_amount - totalPaid): never negative, and 0 exactly when
\* totalPaid >= rent_amount
C19_TotalPaidOfSelectedMonth ==
  \A row \in collectionData :
     /\ row.totalPaid =
          SumAmounts(payments,
                     {i \in PaymentIds :
                        /\ payments[i].tenancy_id = row.tenancy
                        /\ payments[i].status = "completed"
                        /\ payments[i].payment_date \in 1..LastDay})
     /\ row.amountDue =
          Max(0, tenancies[row.tenancy].rent_amount - row.totalPaid)
     /\ row.amountDue >= 0
     /\ row.amountDue = 0
          <=> row.totalPaid >= tenancies[row.tenancy].rent_amount

\* C21: after a toggleSearchability step that reports success for a
\* property, the value the list shows for it is the stored value and only
\* that property, owned by the session's user, can have changed; when the
\* step before was a successful toggle of the same property in the same
\* session, the stored value is back at what it was before that toggle;
\* a toggle that reports an error leaves the list as it was
C21_ToggleRoundTrip ==
  [][ \A s \in LandlordSessions, p \in PropertyIds, currentValue \in BOOLEAN :
        /\ toggleSearchability(s, p, currentValue, TRUE) =>
             /\ \A row \in visibility'[s] :
                   row.id = p => row.is_searchable = is_searchable'[p]
             /\ \A q \in PropertyIds :
                   is_searchable'[q] # is_searchable[q]
                     => q = p /\ landlord_id(q) = sessionUser(s)
             /\ ( lastToggle.session = s /\ lastToggle.id = p )
                  => is_searchable'[p] = lastToggle.before
        /\ toggleSearchability(s, p, currentValue, FALSE) =>
             /\ visibility' = visibility
             /\ is_searchable' = is_searchable ]_vars

====
